---- MODULE Spec2Model ----
(***************************************************************************)
(* A model of src/submit.py: one run of main() driving the four-step       *)
(* complaint form.  The page is an external collaborator: every read of it *)
(* (locator counts, visibility, option lists, step markers) is an input    *)
(* drawn nondeterministically at the statement that reads it.  The file    *)
(* system (artifacts directory, screenshot, markup, summary) is an         *)
(* environment fixed for the run in env.                                   *)
(***************************************************************************)
EXTENDS Integers, Sequences, FiniteSets, TLC

VARIABLES
    pc,             \* position of the run inside main() and its callees
    dry_run,        \* args.dry_run
    env,            \* which file-system / capture operations succeed in this run
    exc,            \* the exception in flight ("none" when there is none)
    failure,        \* the exception main()'s error boundary caught ("none" if none)
    origin,         \* the statement that raised the latest exception
    diag,           \* tags of the save_debug_artifacts invocations, in order
    challenge,      \* some ensure_no_captcha call saw a visible, large marker
    checks,         \* for each ensure_no_captcha call made, in order: how many
                    \* fill_step* procedures had returned when it was made
    interacted,     \* a form field has been filled or selected
    recurring,      \* fill_step1_what's frame: the recurring "Yes" radio was checked
    adv,            \* wait_and_click_next's frame, kept until its caller's
                    \* caller goes on or the exception it raised is handled
    picker,         \* fill_step2_where's frame: the address-picker sub-flow
    stepsDone,      \* how many fill_step* procedures have returned
    submitClicked,  \* the submit control was clicked
    confirm,        \* how the confirmation check of step 4 ended
    summaryWritten, \* artifacts/submission_details.txt was written
    closed,         \* number of browser.close() calls
    ret,            \* main()'s return value: {} while it has none, else {0} or {1}
    exitStatus,     \* the process exit status: {} while running, else {0} or {1}
    chField,        \* choice filler under study: which field
    chOptions,      \* choice filler under study: the control's options
    chResult,       \* choice filler under study: what the filler did
    suggestions,    \* suggestion scan under study: the rendered suggestions
    suggIn,         \* suggestion scan under study: how the page answers
    suggResult,     \* suggestion scan under study: what the scan did
    config,         \* submitted values under study: get_config()
    nyc_datetime,   \* submitted values under study: get_current_datetime_nyc()
    description,    \* submitted values under study: main()'s description, {} before
                    \* it is chosen
    chosen,         \* submitted values under study: calls of select_random_description
    form,           \* submitted values under study: the values applied to the page
    summary,        \* submitted values under study: the summary written, {} if none
    clock,          \* shared artifacts directory under study: the time, in ticks
    written,        \* shared artifacts directory under study: every write made,
                    \* as the file name and the run that wrote it
    rpos            \* shared artifacts directory under study: where each run is

vars == <<pc, dry_run, env, exc, failure, origin, diag, challenge, checks, interacted, recurring,
          adv, picker, stepsDone, submitClicked, confirm, summaryWritten,
          closed, ret, exitStatus, chField, chOptions, chResult,
          suggestions, suggIn, suggResult,
          config, nyc_datetime, description, chosen, form, summary,
          clock, written, rpos>>

runVars == <<pc, dry_run, env, exc, failure, origin, diag, challenge, checks, interacted, recurring,
             adv, picker, stepsDone, submitClicked, confirm, summaryWritten,
             closed, ret, exitStatus>>

\* everything of a run but its position
runRest == <<dry_run, env, exc, failure, origin, diag, challenge, checks, interacted,
             recurring, adv, picker, stepsDone, submitClicked, confirm, summaryWritten,
             closed, ret, exitStatus>>

choiceVars == <<chField, chOptions, chResult>>

suggVars == <<suggestions, suggIn, suggResult>>

dataVars == <<config, nyc_datetime, description, chosen, form, summary>>

fileVars == <<clock, written, rpos>>

\* the variables of the four studies, which a run leaves alone
chVars == <<choiceVars, suggVars, dataVars, fileVars>>

----------------------------------------------------------------------------
(* Bounds of the model *)

\* longest option list a choice control offers
MaxOptions == 3

\* longest suggestion list the address autocomplete renders
MaxSuggestions == 2

\* shared artifacts directory: how long the two runs are followed, in ticks
MaxClock == 3

\* shared artifacts directory: ticks of the clock in one second
TicksPerSecond == 2

\* shared artifacts directory: captures a run makes before it ends
MaxCaptures == 1

----------------------------------------------------------------------------
(* Program constants *)

\* get_current_step returns None
NoStep == 0

\* ensure_no_captcha: the minimum bounding dimension, box['width'] > 50
MinCaptchaDim == 50

\* ensure_no_captcha: len(captcha_selectors)
NumSelectors == 4

\* Python: an exception escaping sys.exit(main()) ends the process with status 1
UncaughtStatus == 1

Steps == 1..4

\* Exception classes the run can meet: playwright TimeoutError, AssertionError
\* (what expect(...) raises), a plain Exception / playwright Error, OSError.
ExcKinds == {"timeout", "assert", "error", "oserror"}

\* except PlaywrightTimeout / except Exception / bare except
CaughtBy(handler, e) ==
    CASE handler = "PlaywrightTimeout" -> e = "timeout"
      [] handler = "Exception"         -> e \in ExcKinds
      [] handler = "bare"              -> e \in ExcKinds

Min(S) == CHOOSE x \in S : \A y \in S : x <= y

RECURSIVE Repeat(_, _)
Repeat(x, n) == IF n = 0 THEN <<>> ELSE <<x>> \o Repeat(x, n - 1)

----------------------------------------------------------------------------
(* save_debug_artifacts *)

Envs == [dirOk : BOOLEAN, shotOk : BOOLEAN, htmlOk : BOOLEAN, summaryOk : BOOLEAN]

\* mkdir is outside the try blocks: its failure propagates; the screenshot
\* and the markup are each guarded by except Exception.
save_debug_artifacts_exc(e) == IF e.dirOk THEN "none" ELSE "oserror"

\* "save, then raise x": the exception that leaves the statement pair
SaveThenRaise(e, x) ==
    IF save_debug_artifacts_exc(e) # "none" THEN save_debug_artifacts_exc(e) ELSE x

\* mutant: the capture is not invoked
save_debug_artifacts_NotInvoked(log, error_name) == log

\* save_debug_artifacts(page, error_name) is invoked: the log of invocations
save_debug_artifacts(log, error_name) == Append(log, error_name)

\* the files one invocation leaves behind
save_debug_artifacts_files(e) ==
    IF ~e.dirOk THEN {}
    ELSE (IF e.shotOk THEN {"png"} ELSE {}) \cup (IF e.htmlOk THEN {"html"} ELSE {})

----------------------------------------------------------------------------
(* ensure_no_captcha *)

Dims == {0, MinCaptchaDim, MinCaptchaDim + 1}

\* what one selector's .first element looks like
Probes ==
    {[present |-> FALSE, visible |-> FALSE, hasBox |-> FALSE, width |-> 0, height |-> 0]}
    \cup {[present |-> TRUE, visible |-> FALSE, hasBox |-> FALSE, width |-> 0, height |-> 0]}
    \cup {[present |-> TRUE, visible |-> TRUE, hasBox |-> FALSE, width |-> 0, height |-> 0]}
    \cup [present : {TRUE}, visible : {TRUE}, hasBox : {TRUE}, width : Dims, height : Dims]

IsChallenge(pr) ==
    /\ pr.present
    /\ pr.visible
    /\ pr.hasBox /\ pr.width > MinCaptchaDim /\ pr.height > MinCaptchaDim

CaptchaHits(sel) == Cardinality({i \in 1..NumSelectors : IsChallenge(sel[i])})

\* every number of selectors a page can show a challenge under
CaptchaHitCounts == {CaptchaHits(sel) : sel \in [1..NumSelectors -> Probes]}

\* The loop over the selectors, given how many of them show a challenge.  For
\* each one the try body calls save_debug_artifacts and raises
\* Exception("CAPTCHA detected"); the enclosing "except Exception: pass" is
\* the handler of that same try.
ensure_no_captcha(hits, e) ==
    LET inTry == IF hits = 0 THEN "none"
                 ELSE IF save_debug_artifacts_exc(e) # "none"
                      THEN save_debug_artifacts_exc(e) ELSE "error"
    IN [saves |-> Repeat("captcha_detected", hits),
        exc   |-> IF inTry # "none" /\ CaughtBy("Exception", inTry) THEN "none" ELSE inTry]

----------------------------------------------------------------------------
(* get_current_step *)

Pages == [markers : SUBSET Steps, problem : BOOLEAN, loctype : BOOLEAN,
          contact : BOOLEAN, submit : BOOLEAN]

get_current_step(p) ==
    IF p.markers # {} THEN Min(p.markers)
    ELSE IF p.problem THEN 1
    ELSE IF p.loctype THEN 2
    ELSE IF p.contact THEN 3
    ELSE IF p.submit THEN 4
    ELSE NoStep

CurrentStepOutcomes == {get_current_step(p) : p \in Pages}

----------------------------------------------------------------------------
(* Locator chains: "x = a.first; if x.count() == 0: x = b.first; ..." *)

\* what the first match of one strategy is, within the wait that follows
Statuses == {"absent", "hidden", "visible"}

Chains == [1..3 -> Statuses]

\* the strategy whose element the chain ends up holding (the last one when
\* none matches)
Resolve(ch) == IF ch[1] # "absent" THEN 1 ELSE IF ch[2] # "absent" THEN 2 ELSE 3

\* expect(x).to_be_visible(...) passes
ResolvedVisible(ch) == ch[Resolve(ch)] = "visible"

\* what the page offers: the first strategy with a visible match, 0 if none
FirstVisible(ch) ==
    IF ch[1] = "visible" THEN 1 ELSE IF ch[2] = "visible" THEN 2
    ELSE IF ch[3] = "visible" THEN 3 ELSE 0

----------------------------------------------------------------------------
(* navigate_to_complaint_form *)

NavInputs == [onForm : BOOLEAN, atArticle : BOOLEAN, goto : {"ok", "timeout", "error"},
              resid : Statuses, residClick : BOOLEAN, report : Chains,
              reportClick : BOOLEAN, formVisible : BOOLEAN]

\* [exc, saves]: the exception it raises when the capture itself succeeds, and
\* the tags it hands to save_debug_artifacts
navigate_to_complaint_form(in) ==
    IF in.onForm THEN [exc |-> "none", saves |-> <<>>]
    ELSE IF ~in.atArticle /\ in.goto # "ok" THEN [exc |-> in.goto, saves |-> <<>>]
    ELSE IF in.resid = "hidden" THEN [exc |-> "assert", saves |-> <<>>]
    ELSE IF in.resid = "visible" /\ ~in.residClick THEN [exc |-> "timeout", saves |-> <<>>]
    ELSE IF \A i \in 1..3 : in.report[i] = "absent"
         THEN [exc |-> "error", saves |-> <<"no_report_button">>]
    ELSE IF ~ResolvedVisible(in.report) THEN [exc |-> "assert", saves |-> <<>>]
    ELSE IF ~in.reportClick THEN [exc |-> "timeout", saves |-> <<>>]
    ELSE IF ~in.formVisible THEN [exc |-> "assert", saves |-> <<>>]
    ELSE [exc |-> "none", saves |-> <<>>]

NavOutcomes == {navigate_to_complaint_form(in) : in \in NavInputs}

----------------------------------------------------------------------------
(* The run *)

NoAdvance == [expected |-> NoStep, firstVisible |-> 0, strategy |-> 0, clicked |-> FALSE,
              verified |-> FALSE, current |-> NoStep, saves |-> 0, result |-> "none"]

NoPicker == [opened |-> FALSE, selection |-> "none", picked |-> 0, enables |-> FALSE,
             pin |-> FALSE, enabled |-> FALSE, confirmed |-> FALSE, dismissed |-> FALSE,
             result |-> "none"]

\* the suggestion scan before it has done anything
NoSuggestion == [selection |-> "none", target |-> 0, picked |-> 0, exc |-> "none"]

\* DEFAULT_ADDRESS, DEFAULT_CITY, DEFAULT_STATE, DEFAULT_ZIP
DefaultConfig ==
    [address |-> "932 Carroll St", city |-> "Brooklyn", state |-> "NY", zip |-> "11225"]

\* a form no value has been applied to: per field, the set of values applied
NoForm == [problem |-> {}, additional |-> {}, description |-> {}, datetime |-> {},
           loctype |-> {}, address |-> {}]

\* the studies at rest
NoChoiceStudy ==
    /\ chField = "none"
    /\ chOptions = <<>>
    /\ chResult = [done |-> FALSE, raised |-> FALSE, index |-> 0]

NoSuggestionStudy ==
    /\ suggestions = <<>>
    /\ suggIn = [listVisible |-> FALSE, clickOk |-> FALSE, enterOk |-> FALSE]
    /\ suggResult = [done |-> FALSE, out |-> NoSuggestion]

NoDataStudy ==
    /\ config = DefaultConfig
    /\ nyc_datetime = [hour |-> 0, minute |-> 0]
    /\ description = {}
    /\ chosen = 0
    /\ form = NoForm
    /\ summary = {}

\* the two runs that share an artifacts directory
Runs == {1, 2}

NoFileStudy ==
    /\ clock = 0
    /\ written = {}
    /\ rpos = [r \in Runs |-> [at |-> "idle", captures |-> 0]]

\* a run at rest at position p, for the studies
IdleRun(p) ==
    /\ pc = p
    /\ dry_run = FALSE
    /\ env = [dirOk |-> TRUE, shotOk |-> TRUE, htmlOk |-> TRUE, summaryOk |-> TRUE]
    /\ exc = "none"
    /\ failure = "none"
    /\ origin = "none"
    /\ diag = <<>>
    /\ challenge = FALSE
    /\ checks = <<>>
    /\ interacted = FALSE
    /\ recurring = FALSE
    /\ adv = NoAdvance
    /\ picker = NoPicker
    /\ stepsDone = 0
    /\ submitClicked = FALSE
    /\ confirm = "unchecked"
    /\ summaryWritten = FALSE
    /\ closed = 0
    /\ ret = {}
    /\ exitStatus = {}

InitRun ==
    /\ pc = "goto"
    /\ dry_run \in BOOLEAN
    /\ env \in Envs
    /\ exc = "none"
    /\ failure = "none"
    /\ origin = "none"
    /\ diag = <<>>
    /\ challenge = FALSE
    /\ checks = <<>>
    /\ interacted = FALSE
    /\ recurring = FALSE
    /\ adv = NoAdvance
    /\ picker = NoPicker
    /\ stepsDone = 0
    /\ submitClicked = FALSE
    /\ confirm = "unchecked"
    /\ summaryWritten = FALSE
    /\ closed = 0
    /\ ret = {}
    /\ exitStatus = {}

\* A run follows control and leaves the submitted values to SpecSummary.
Init ==
    /\ InitRun
    /\ NoFileStudy
    /\ NoChoiceStudy
    /\ NoSuggestionStudy
    /\ NoDataStudy

\* the statement at `from` ends: normally (to `to`) or raising x to main()'s
\* error boundary
Leave(x, to) ==
    /\ pc' = IF x = "none" THEN to ELSE "except"
    /\ exc' = x
    /\ origin' = IF x = "none" THEN origin ELSE pc

\* main(): page.goto(form_url, ...); wait_for_network_idle(page)
GotoForm ==
    /\ pc = "goto"
    /\ \E r \in {"none", "timeout", "error"} : Leave(r, "captcha1")
    /\ UNCHANGED <<dry_run, env, failure, diag, challenge, checks, interacted, recurring, adv,
                   picker, stepsDone, submitClicked, confirm, summaryWritten, closed,
                   ret, exitStatus, chVars>>

\* main(): ensure_no_captcha(page), both calls
EnsureNoCaptcha ==
    /\ pc \in {"captcha1", "captcha2"}
    /\ \E hits \in CaptchaHitCounts :
          LET r == ensure_no_captcha(hits, env) IN
          /\ diag' = diag \o r.saves
          /\ challenge' = (challenge \/ hits > 0)
          /\ checks' = Append(checks, stepsDone)
          /\ Leave(r.exc, IF pc = "captcha1" THEN "navigate" ELSE "step1_problem")
    /\ UNCHANGED <<dry_run, env, failure, interacted, recurring, adv,
                   picker, stepsDone, submitClicked, confirm, summaryWritten, closed,
                   ret, exitStatus, chVars>>

\* main(): navigate_to_complaint_form(page)
NavigateToComplaintForm ==
    /\ pc = "navigate"
    /\ \E r \in NavOutcomes :
          /\ diag' = diag \o r.saves
          /\ Leave(IF r.saves # <<>> THEN SaveThenRaise(env, r.exc) ELSE r.exc, "captcha2")
    /\ UNCHANGED <<dry_run, env, failure, challenge, checks, interacted, recurring, adv,
                   picker, stepsDone, submitClicked, confirm, summaryWritten, closed,
                   ret, exitStatus, chVars>>


----------------------------------------------------------------------------
(* Choice fields driven by a preference list *)

\* An option's visible text is a sequence of words; a preference token is
\* one too.  has-text is containment of the token in the text.
Contains(text, tok) ==
    \E i \in 1..(Len(text) - Len(tok) + 1) : SubSeq(text, i, i + Len(tok) - 1) = tok

\* ADDITIONAL_DETAILS, by the preference tokens it is made of
ADDITIONAL_DETAILS == <<"Trash", "Improper", "Open lot">>

\* fill_step1_what: preferred_options
AdditionalPrefs ==
    <<ADDITIONAL_DETAILS, <<"Trash">>, <<"Garbage">>, <<"Improper">>, <<"Open lot">>,
      <<"Food">>, <<"Waste">> >>

\* fill_step2_where: location_options
LocationPrefs ==
    << <<"3+ Family Apt. Building">>, <<"3+ Family Mixed Use Building">>,
       <<"1-2 Family Dwelling">>, <<"1-2 Family Mixed Use Building">> >>

\* fill_step2_where: detail_options
DetailPrefs ==
    << <<"Exterior">>, <<"Outside">>, <<"Sidewalk">>, <<"Street">>, <<"Front">>,
       <<"Building">> >>

Fields == {"additional", "loctype", "detail"}

PrefsOf(f) ==
    CASE f = "additional" -> AdditionalPrefs
      [] f = "loctype"    -> LocationPrefs
      [] f = "detail"     -> DetailPrefs

\* The words the page's options are made of: per field, two preferred
\* tokens and a word no preference names.
WordsOf(f) ==
    CASE f = "additional" -> {"Trash", "Garbage", "Other"}
      [] f = "loctype"    -> {"3+ Family Apt. Building", "3+ Family Mixed Use Building", "Other"}
      [] f = "detail"     -> {"Exterior", "Outside", "Other"}

\* option texts: the empty placeholder, one word, two words
Texts(W) == {<<>>} \cup {<<a>> : a \in W} \cup {<<a, b>> : a \in W, b \in W}

OptionLists(f) == UNION {[1..n -> Texts(WordsOf(f))] : n \in 0..MaxOptions}

\* indices of the options matching "option:has-text('tok')"
HasText(options, tok) == {i \in 1..Len(options) : Contains(options[i], tok)}

\* the for loop: position of the first preference some option contains, 0 if none
FirstPref(prefs, options) ==
    LET hit == {k \in 1..Len(prefs) : HasText(options, prefs[k]) # {}}
    IN IF hit = {} THEN 0 ELSE Min(hit)

\* select_option(label=...): the first option whose label is exactly `label`;
\* with no such option the call times out
SelectByLabel(options, label) ==
    LET eq == {i \in 1..Len(options) : options[i] = label}
    IN IF eq = {} THEN [done |-> TRUE, raised |-> TRUE, index |-> 0]
       ELSE [done |-> TRUE, raised |-> FALSE, index |-> Min(eq)]

\* select_option(index=k), k counted from 0; times out when there is no such option
SelectByIndex(options, k) ==
    IF k + 1 <= Len(options) THEN [done |-> TRUE, raised |-> FALSE, index |-> k + 1]
    ELSE [done |-> TRUE, raised |-> TRUE, index |-> 0]

\* additional details and location detail: the label handed to select_option
\* is the text_content() of the first option containing the preferred token
ChooseByMatchedText(prefs, options) ==
    LET k == FirstPref(prefs, options)
    IN IF k # 0 THEN SelectByLabel(options, options[Min(HasText(options, prefs[k]))])
       ELSE SelectByIndex(options, 1)

\* location type: the label handed to select_option is the preferred token
ChooseByToken(prefs, options) ==
    LET k == FirstPref(prefs, options)
    IN IF k # 0 THEN SelectByLabel(options, prefs[k])
       ELSE SelectByIndex(options, 1)

ChooseAdditionalDetails(options) == ChooseByMatchedText(AdditionalPrefs, options)

ChooseLocationType(options) == ChooseByToken(LocationPrefs, options)

ChooseLocationDetail(options) == ChooseByMatchedText(DetailPrefs, options)

\* "option[value]:not([value=''])" is present: the options have loaded
OptionsLoaded(options) == \E i \in 1..Len(options) : options[i] # <<>>

AdditionalOutcomes == {ChooseAdditionalDetails(o) : o \in OptionLists("additional")}

LocationTypeOutcomes ==
    {ChooseLocationType(o) : o \in {l \in OptionLists("loctype") : OptionsLoaded(l)}}

LocationDetailOutcomes ==
    {ChooseLocationDetail(o) : o \in {l \in OptionLists("detail") : OptionsLoaded(l)}}

----------------------------------------------------------------------------
(* fill_step1_what *)

\* wait_for_network_idle; expect(problem_detail).to_be_visible;
\* problem_detail.select_option(label="Condition Attracting Rodents")
Step1ProblemDetail ==
    /\ pc = "step1_problem"
    /\ \E visible \in BOOLEAN, hasLabel \in BOOLEAN :
          /\ interacted' = (interacted \/ (visible /\ hasLabel))
          /\ Leave(IF ~visible THEN "assert" ELSE IF ~hasLabel THEN "timeout" ELSE "none",
                   "step1_additional")
    /\ UNCHANGED <<dry_run, env, failure, diag, challenge, checks, recurring, adv,
                   picker, stepsDone, submitClicked, confirm, summaryWritten, closed,
                   ret, exitStatus, chVars>>

\* the Additional Details dropdown: skipped when it does not become visible
Step1AdditionalDetails ==
    /\ pc = "step1_additional"
    /\ \/ Leave("none", "step1_fields")
       \/ \E r \in AdditionalOutcomes :
             Leave(IF r.raised THEN "timeout" ELSE "none", "step1_fields")
    /\ UNCHANGED <<dry_run, env, failure, diag, challenge, checks, interacted, recurring, adv,
                   picker, stepsDone, submitClicked, confirm, summaryWritten, closed,
                   ret, exitStatus, chVars>>

\* description, date/time observed, recurring "Yes"; then the call of
\* wait_and_click_next(page, expected_next_step=2)
Step1Fields ==
    /\ pc = "step1_fields"
    /\ \E byLabel \in Statuses, textarea \in Statuses,
          dt \in {"absent", "hidden", "filled", "timeout"},
          yes \in {"absent", "checked", "timeout"} :
          LET desc == IF byLabel # "absent" THEN byLabel ELSE textarea
              x == IF desc # "visible" THEN "assert"
                   ELSE IF dt = "hidden" THEN "assert"
                   ELSE IF dt = "timeout" THEN "timeout"
                   ELSE IF yes = "timeout" THEN "timeout"
                   ELSE "none"
          IN /\ recurring' = (x = "none" /\ yes = "checked")
             /\ adv' = IF x = "none" THEN [NoAdvance EXCEPT !.expected = 2] ELSE adv
             /\ Leave(x, "adv_click")
    /\ UNCHANGED <<dry_run, env, failure, diag, challenge, checks, interacted,
                   picker, stepsDone, submitClicked, confirm, summaryWritten, closed,
                   ret, exitStatus, chVars>>

----------------------------------------------------------------------------
(* wait_and_click_next *)

\* mutant: only a step behind the expected one counts as a mismatch
StepMismatch_OnlyBehind(current, expected) == current # NoStep /\ current < expected

\* mutant: the truthiness test of current is dropped, "if current != expected"
StepMismatch_NoneRejected(current, expected) == current # expected

\* "if current and current != expected_next_step"
StepMismatch(current, expected) == current # NoStep /\ current # expected

\* f"step_transition_failed_expected_{expected_next_step}"
TransitionTag(expected) ==
    CASE expected = 2 -> "step_transition_failed_expected_2"
      [] expected = 3 -> "step_transition_failed_expected_3"
      [] expected = 4 -> "step_transition_failed_expected_4"

\* where the caller of wait_and_click_next(expected) continues
AfterAdvance(expected) ==
    CASE expected = 2 -> "step2_loctype"
      [] expected = 3 -> "step3"
      [] expected = 4 -> "step4_review"

\* resolve the button, expect it visible, click it, wait for network idle
AdvanceClick ==
    /\ pc = "adv_click"
    /\ \E ch \in Chains, clickOk \in BOOLEAN :
          LET x == IF ~ResolvedVisible(ch) THEN "assert"
                   ELSE IF ~clickOk THEN "timeout" ELSE "none"
          IN /\ adv' = [adv EXCEPT !.firstVisible = FirstVisible(ch),
                                   !.strategy = Resolve(ch),
                                   !.clicked = (x = "none"),
                                   !.result = IF x = "none" THEN "none" ELSE "raised"]
             /\ Leave(x, "adv_verify")
    /\ UNCHANGED <<dry_run, env, failure, diag, challenge, checks, interacted, recurring,
                   picker, stepsDone, submitClicked, confirm, summaryWritten, closed,
                   ret, exitStatus, chVars>>

\* the verification of the transition; on return the calling fill_step*
\* procedure returns too
AdvanceVerify ==
    /\ pc = "adv_verify"
    /\ \E current \in CurrentStepOutcomes :
          LET bad == StepMismatch(current, adv.expected) IN
          /\ adv' = [adv EXCEPT !.verified = TRUE, !.current = current,
                                !.saves = IF bad THEN 1 ELSE 0,
                                !.result = IF bad THEN "raised" ELSE "returned"]
          /\ diag' = IF bad
                     THEN save_debug_artifacts(diag, TransitionTag(adv.expected))
                     ELSE diag
          /\ stepsDone' = IF bad THEN stepsDone ELSE stepsDone + 1
          /\ Leave(IF bad THEN SaveThenRaise(env, "error") ELSE "none",
                   AfterAdvance(adv.expected))
    /\ UNCHANGED <<dry_run, env, failure, challenge, checks, interacted, recurring,
                   picker, submitClicked, confirm, summaryWritten, closed,
                   ret, exitStatus, chVars>>

----------------------------------------------------------------------------
(* fill_step3_who *)

\* wait_for_network_idle; the call of wait_and_click_next(page, expected_next_step=4).
\* fill_step2_where has returned: its frame is gone.
Step3Who ==
    /\ pc = "step3"
    /\ adv' = [NoAdvance EXCEPT !.expected = 4]
    /\ picker' = NoPicker
    /\ Leave("none", "adv_click")
    /\ UNCHANGED <<dry_run, env, failure, diag, challenge, checks, interacted, recurring,
                   stepsDone, submitClicked, confirm, summaryWritten, closed,
                   ret, exitStatus, chVars>>


----------------------------------------------------------------------------
(* fill_step2_where *)

\* wait for the Location Type options, expect the control visible, select.
\* fill_step1_what has returned: its frame and wait_and_click_next's are gone.
Step2LocationType ==
    /\ pc = "step2_loctype"
    /\ \/ \E x \in {"timeout", "assert"} : Leave(x, "step2_detail")
       \/ \E r \in LocationTypeOutcomes :
             Leave(IF r.raised THEN "timeout" ELSE "none", "step2_detail")
    /\ recurring' = FALSE
    /\ adv' = NoAdvance
    /\ UNCHANGED <<dry_run, env, failure, diag, challenge, checks, interacted,
                   picker, stepsDone, submitClicked, confirm, summaryWritten, closed,
                   ret, exitStatus, chVars>>

\* the Location Detail block: its try catches PlaywrightTimeout, whether the
\* options did not load or select_option timed out
LocationDetailExc(present, loaded, r) ==
    LET inTry == IF ~present THEN "none"
                 ELSE IF ~loaded THEN "timeout"
                 ELSE IF r.raised THEN "timeout" ELSE "none"
    IN IF inTry # "none" /\ CaughtBy("PlaywrightTimeout", inTry) THEN "none" ELSE inTry

Step2LocationDetail ==
    /\ pc = "step2_detail"
    /\ \E present \in BOOLEAN, loaded \in BOOLEAN, r \in LocationDetailOutcomes :
          Leave(LocationDetailExc(present, loaded, r), "step2_open")
    /\ UNCHANGED <<dry_run, env, failure, diag, challenge, checks, interacted, recurring, adv,
                   picker, stepsDone, submitClicked, confirm, summaryWritten, closed,
                   ret, exitStatus, chVars>>

\* expect(search_btn).to_be_visible; search_btn.click()
Step2OpenSearch ==
    /\ pc = "step2_open"
    /\ \E visible \in BOOLEAN, clickOk \in BOOLEAN :
          LET x == IF ~visible THEN "assert" ELSE IF ~clickOk THEN "timeout" ELSE "none"
          IN /\ picker' = IF x = "none" THEN [NoPicker EXCEPT !.opened = TRUE] ELSE picker
             /\ Leave(x, "picker_input")
    /\ UNCHANGED <<dry_run, env, failure, diag, challenge, checks, interacted, recurring, adv,
                   stepsDone, submitClicked, confirm, summaryWritten, closed,
                   ret, exitStatus, chVars>>

\* a statement inside the picker's try block ends: normally, or raising x,
\* which the "except PlaywrightTimeout" of line 497 catches or lets through
LeavePicker(x, to) ==
    /\ pc' = IF x = "none" THEN to
             ELSE IF CaughtBy("PlaywrightTimeout", x) THEN "picker_failed" ELSE "except"
    /\ exc' = x
    /\ origin' = IF x = "none" THEN origin ELSE pc

\* modal_input.wait_for(visible); click, clear and type the address
PickerTypeAddress ==
    /\ pc = "picker_input"
    /\ \E ok \in BOOLEAN : LeavePicker(IF ok THEN "none" ELSE "timeout", "picker_suggest")
    /\ UNCHANGED <<dry_run, env, failure, diag, challenge, checks, interacted, recurring, adv,
                   picker, stepsDone, submitClicked, confirm, summaryWritten, closed,
                   ret, exitStatus, chVars>>

\* boroughs, each as the words it is made of
Boroughs == { <<"MANHATTAN">>, <<"BROOKLYN">>, <<"QUEENS">>, <<"BRONX">>,
              <<"STATEN", "ISLAND">> }

\* the words the rendered suggestions are made of
SuggestionWords == {"Carroll St", "Brooklyn", "STATEN", "ISLAND"}

\* str.upper(), word by word
Upper(text) ==
    [i \in 1..Len(text) |->
        CASE text[i] = "Carroll St" -> "CARROLL ST"
          [] text[i] = "Brooklyn"   -> "BROOKLYN"
          [] OTHER                  -> text[i]]

\* the rendered suggestions: the text_content() of each (<<>> when it has none)
SuggestionLists == UNION {[1..n -> Texts(SuggestionWords)] : n \in 0..MaxSuggestions}

\* mutant: the text is compared as it is rendered
NamesBorough_CaseSensitive(text) == \E b \in Boroughs : Contains(text, b)

\* any(b in text.upper() for b in boroughs)
NamesBorough(text) == \E b \in Boroughs : Contains(Upper(text), b)

\* the scan of the suggestions: [selection, target, picked, exc]
\*   listVisible  autocomplete_list.wait_for(visible) did not time out
\*   clickOk      the suggestion click did not time out
\*   enterOk      modal_input.press("Enter") did not time out
\* target is the suggestion click() was called on, picked the one it clicked
SelectSuggestion(listVisible, sugg, clickOk, enterOk) ==
    LET withBorough == {i \in 1..Len(sugg) : NamesBorough(sugg[i])}
        target == IF withBorough # {} THEN Min(withBorough)
                  ELSE IF Len(sugg) > 0 THEN 1 ELSE 0
        enter == IF enterOk
                 THEN [NoSuggestion EXCEPT !.selection = "enter"]
                 ELSE [NoSuggestion EXCEPT !.exc = "timeout"]
    IN IF ~listVisible THEN enter
       ELSE IF withBorough # {}
            THEN IF clickOk
                 THEN [NoSuggestion EXCEPT !.selection = "borough", !.target = target,
                                           !.picked = target]
                 ELSE [enter EXCEPT !.target = target]
       ELSE IF Len(sugg) > 0
            THEN IF clickOk
                 THEN [NoSuggestion EXCEPT !.selection = "first", !.target = target,
                                           !.picked = target]
                 ELSE [enter EXCEPT !.target = target]
       ELSE NoSuggestion

SuggestionOutcomes ==
    {SelectSuggestion(v, sugg, c, e) :
        v \in BOOLEAN, sugg \in SuggestionLists, c \in BOOLEAN, e \in BOOLEAN}

PickerSelectSuggestion ==
    /\ pc = "picker_suggest"
    /\ \E r \in SuggestionOutcomes :
          /\ picker' = [picker EXCEPT !.selection = r.selection, !.picked = r.picked]
          /\ LeavePicker(r.exc, "picker_visible")
    /\ UNCHANGED <<dry_run, env, failure, diag, challenge, checks, interacted, recurring, adv,
                   stepsDone, submitClicked, confirm, summaryWritten, closed,
                   ret, exitStatus, chVars>>

\* expect(select_btn).to_be_visible(timeout=5000).  picker.enables is how
\* the button found visible behaves: whether the page enables it by itself.
PickerConfirmVisible ==
    /\ pc = "picker_visible"
    /\ \/ /\ LeavePicker("assert", "picker_wait")
          /\ UNCHANGED picker
       \/ \E enables \in BOOLEAN :
             /\ picker' = [picker EXCEPT !.enables = enables]
             /\ LeavePicker("none", "picker_wait")
    /\ UNCHANGED <<dry_run, env, failure, diag, challenge, checks, interacted, recurring, adv,
                   stepsDone, submitClicked, confirm, summaryWritten, closed,
                   ret, exitStatus, chVars>>

\* mutant: the wait is given no timeout (timeout=0) and polls on
WaitForEnabled_NoTimeout(enables) == IF enables THEN "enabled" ELSE "waiting"

\* page.wait_for_function("btn && !btn.disabled", timeout=15000): how it ends
WaitForEnabled(enables) == IF enables THEN "enabled" ELSE "timeout"

\* wait for the button to be enabled; on timeout capture diagnostics and click
\* the centre of the map when there is a canvas with a bounding box
PickerWaitEnabled ==
    /\ pc = "picker_wait"
    /\ \/ /\ WaitForEnabled(picker.enables) = "enabled"
          /\ LeavePicker("none", "picker_click")
          /\ UNCHANGED <<diag, picker>>
       \/ \E canvas \in BOOLEAN :
             /\ WaitForEnabled(picker.enables) = "timeout"
             /\ diag' = save_debug_artifacts(diag, "address_button_still_disabled")
             /\ picker' = [picker EXCEPT
                              !.pin = (save_debug_artifacts_exc(env) = "none" /\ canvas)]
             /\ LeavePicker(save_debug_artifacts_exc(env), "picker_click")
    /\ UNCHANGED <<dry_run, env, failure, challenge, checks, interacted, recurring, adv,
                   stepsDone, submitClicked, confirm, summaryWritten, closed,
                   ret, exitStatus, chVars>>

\* select_btn.click(): a click waits for the element to be enabled and times
\* out when it stays disabled.  Then the call of
\* wait_and_click_next(page, expected_next_step=3).
ConfirmClick(enabled, clickOk) == IF enabled /\ clickOk THEN "none" ELSE "timeout"

PickerClickConfirm ==
    /\ pc = "picker_click"
    /\ \E enabled \in BOOLEAN, clickOk \in BOOLEAN :
          LET x == ConfirmClick(enabled, clickOk) IN
          /\ picker' = [picker EXCEPT !.enabled = enabled, !.confirmed = (x = "none"),
                                      !.result = IF x = "none" THEN "closed" ELSE "none"]
          /\ adv' = IF x = "none" THEN [NoAdvance EXCEPT !.expected = 3] ELSE adv
          /\ LeavePicker(x, "adv_click")
    /\ UNCHANGED <<dry_run, env, failure, diag, challenge, checks, interacted, recurring,
                   stepsDone, submitClicked, confirm, summaryWritten, closed,
                   ret, exitStatus, chVars>>

\* except PlaywrightTimeout: capture, try to dismiss the modal, re-raise
PickerFailed ==
    /\ pc = "picker_failed"
    /\ \E cancel \in BOOLEAN :
          /\ diag' = save_debug_artifacts(diag, "address_modal_failed")
          /\ picker' = [picker EXCEPT
                           !.dismissed = (save_debug_artifacts_exc(env) = "none" /\ cancel),
                           !.result = "raised"]
          /\ pc' = "except"
          /\ exc' = SaveThenRaise(env, exc)
          /\ origin' = IF save_debug_artifacts_exc(env) = "none" THEN origin ELSE pc
    /\ UNCHANGED <<dry_run, env, failure, challenge, checks, interacted, recurring, adv,
                   stepsDone, submitClicked, confirm, summaryWritten, closed,
                   ret, exitStatus, chVars>>

----------------------------------------------------------------------------
(* fill_step4_review_and_submit *)

\* the dry-run return, or: resolve the submit control, expect it visible, click.
\* fill_step3_who has returned: wait_and_click_next's frame is gone.
Step4Review ==
    /\ pc = "step4_review"
    /\ IF dry_run
       THEN /\ stepsDone' = stepsDone + 1
            /\ Leave("none", "save")
            /\ UNCHANGED submitClicked
       ELSE \E byRole \in Statuses, fallback \in Statuses, clickOk \in BOOLEAN :
               LET btn == IF byRole # "absent" THEN byRole ELSE fallback
                   x == IF btn # "visible" THEN "assert"
                        ELSE IF ~clickOk THEN "timeout" ELSE "none"
               IN /\ submitClicked' = (x = "none")
                  /\ Leave(x, "step4_confirm")
                  /\ UNCHANGED stepsDone
    /\ adv' = NoAdvance
    /\ UNCHANGED <<dry_run, env, failure, diag, challenge, checks, interacted, recurring,
                   picker, confirm, summaryWritten, closed,
                   ret, exitStatus, chVars>>

\* mutant: a timed-out wait for the marker counts as a confirmation
ConfirmationFound_TimeoutAccepted(thank, scan) == thank \in {"found", "timeout"}

\* confirmation_found
\*   thank  how page.get_by_text("Thank you").wait_for(timeout=15000) ended
\*   scan   a keyword is in page.content().lower()
ConfirmationFound(thank, scan) == thank = "found" \/ (thank = "timeout" /\ scan)

\* what the page showed after the submit click
ConfirmationSignal(thank, scan) ==
    IF thank = "found" THEN "marker"
    ELSE IF thank = "timeout" /\ scan THEN "scan"
    ELSE IF thank = "timeout" THEN "absent"
    ELSE "error"

Step4Confirm ==
    /\ pc = "step4_confirm"
    /\ \E thank \in {"found", "timeout", "error"}, scan \in BOOLEAN :
          /\ confirm' = ConfirmationSignal(thank, scan)
          /\ IF thank = "error"
             THEN /\ Leave("error", "save")
                  /\ UNCHANGED <<diag, stepsDone>>
             ELSE IF ConfirmationFound(thank, scan)
             THEN /\ stepsDone' = stepsDone + 1
                  /\ Leave("none", "save")
                  /\ UNCHANGED diag
             ELSE /\ diag' = save_debug_artifacts(diag, "submission_failed_no_confirmation")
                  /\ Leave(SaveThenRaise(env, "error"), "save")
                  /\ UNCHANGED stepsDone
    /\ UNCHANGED <<dry_run, env, failure, challenge, checks, interacted, recurring, adv,
                   picker, submitClicked, summaryWritten, closed,
                   ret, exitStatus, chVars>>

----------------------------------------------------------------------------
(* main: the end of the try body, the handlers, the teardown *)

\* mkdir(exist_ok=True) and write_text, neither guarded
save_submission_details(e) == IF e.dirOk /\ e.summaryOk THEN "none" ELSE "oserror"

\* save_submission_details(...); return 0
SaveSubmissionDetails ==
    /\ pc = "save"
    /\ LET x == save_submission_details(env) IN
          /\ summaryWritten' = (x = "none")
          /\ ret' = IF x = "none" THEN {0} ELSE ret
          /\ Leave(x, "finally")
    /\ UNCHANGED <<dry_run, env, failure, diag, challenge, checks, interacted, recurring, adv,
                   picker, stepsDone, submitClicked, confirm, closed,
                   exitStatus, chVars>>

\* mutant: the "except Exception" clause falls through to "return 0"
MainHandler_GenericReturnsZero(e) ==
    IF CaughtBy("PlaywrightTimeout", e) THEN [tag |-> "timeout_error", ret |-> 1]
    ELSE [tag |-> "error", ret |-> 0]

\* the except clause that takes exception e: its tag and the value it returns
MainHandler(e) ==
    IF CaughtBy("PlaywrightTimeout", e) THEN [tag |-> "timeout_error", ret |-> 1]
    ELSE [tag |-> "error", ret |-> 1]

\* except PlaywrightTimeout / except Exception: capture, return 1; an
\* exception of the capture leaves main() through the finally clause.  The
\* frames the exception unwound are gone.
ExceptHandler ==
    /\ pc = "except"
    /\ failure' = exc
    /\ diag' = save_debug_artifacts(diag, MainHandler(exc).tag)
    /\ ret' = IF save_debug_artifacts_exc(env) = "none" THEN {MainHandler(exc).ret} ELSE ret
    /\ exc' = save_debug_artifacts_exc(env)
    /\ pc' = "finally"
    /\ recurring' = FALSE
    /\ adv' = NoAdvance
    /\ picker' = NoPicker
    /\ UNCHANGED <<dry_run, env, origin, challenge, checks, interacted,
                   stepsDone, submitClicked, confirm, summaryWritten, closed,
                   exitStatus, chVars>>

\* mutant: the teardown is skipped
CloseBrowser_Skipped(browser, n) == n

\* "if browser: browser.close()": the number of close() calls made so far
CloseBrowser(browser, n) == IF browser THEN n + 1 ELSE n

\* finally: browser is the object p.chromium.launch returned before the try
\* statement was entered
Finally ==
    /\ pc = "finally"
    /\ closed' = CloseBrowser(TRUE, closed)
    /\ pc' = "exit"
    /\ UNCHANGED <<dry_run, env, exc, failure, origin, diag, challenge, checks, interacted, recurring, adv,
                   picker, stepsDone, submitClicked, confirm, summaryWritten,
                   ret, exitStatus, chVars>>

\* sys.exit(main()): the value main() returned, or the status of an uncaught
\* exception
ProcessExit(r) == IF r = {} THEN {UncaughtStatus} ELSE r

Exit ==
    /\ pc = "exit"
    /\ exitStatus' = ProcessExit(ret)
    /\ pc' = "done"
    /\ UNCHANGED <<dry_run, env, exc, failure, origin, diag, challenge, checks, interacted, recurring, adv,
                   picker, stepsDone, submitClicked, confirm, summaryWritten, closed,
                   ret, chVars>>

Next ==
    \/ GotoForm
    \/ EnsureNoCaptcha
    \/ NavigateToComplaintForm
    \/ Step1ProblemDetail
    \/ Step1AdditionalDetails
    \/ Step1Fields
    \/ AdvanceClick
    \/ AdvanceVerify
    \/ Step2LocationType
    \/ Step2LocationDetail
    \/ Step2OpenSearch
    \/ PickerTypeAddress
    \/ PickerSelectSuggestion
    \/ PickerConfirmVisible
    \/ PickerWaitEnabled
    \/ PickerClickConfirm
    \/ PickerFailed
    \/ Step3Who
    \/ Step4Review
    \/ Step4Confirm
    \/ SaveSubmissionDetails
    \/ ExceptHandler
    \/ Finally
    \/ Exit

Spec == Init /\ [][Next]_vars


\* One thread of control: the interpreter goes on to the next statement as
\* long as there is one.
SpecLive == Spec /\ WF_vars(Next)

----------------------------------------------------------------------------
(* The choice fillers on their own: every option list of a control *)

InitChoice ==
    /\ IdleRun("choice")
    /\ NoFileStudy
    /\ NoSuggestionStudy
    /\ NoDataStudy
    /\ chField \in Fields
    /\ chOptions \in OptionLists(chField)
    /\ chField \in {"loctype", "detail"} => OptionsLoaded(chOptions)
    /\ chResult = [done |-> FALSE, raised |-> FALSE, index |-> 0]

\* fill_step1_what, the Additional Details dropdown once it is visible
FillAdditionalDetails ==
    /\ chField = "additional" /\ ~chResult.done
    /\ chResult' = ChooseAdditionalDetails(chOptions)
    /\ UNCHANGED <<runVars, chField, chOptions, suggVars, dataVars, fileVars>>

\* fill_step2_where, the Location Type dropdown once its options have loaded
FillLocationType ==
    /\ chField = "loctype" /\ ~chResult.done
    /\ chResult' = ChooseLocationType(chOptions)
    /\ UNCHANGED <<runVars, chField, chOptions, suggVars, dataVars, fileVars>>

\* fill_step2_where, the Location Detail dropdown once its options have loaded
FillLocationDetail ==
    /\ chField = "detail" /\ ~chResult.done
    /\ chResult' = ChooseLocationDetail(chOptions)
    /\ UNCHANGED <<runVars, chField, chOptions, suggVars, dataVars, fileVars>>

NextChoice == FillAdditionalDetails \/ FillLocationType \/ FillLocationDetail

SpecChoice == InitChoice /\ [][NextChoice]_vars

----------------------------------------------------------------------------
(* The suggestion scan on its own: every rendered list *)

InitSuggest ==
    /\ IdleRun("suggest")
    /\ NoFileStudy
    /\ NoChoiceStudy
    /\ NoDataStudy
    /\ suggestions \in SuggestionLists
    /\ suggIn \in [listVisible : BOOLEAN, clickOk : BOOLEAN, enterOk : BOOLEAN]
    /\ suggResult = [done |-> FALSE, out |-> NoSuggestion]

\* fill_step2_where, from the wait for the autocomplete list to the end of
\* its try statement
ScanSuggestions ==
    /\ ~suggResult.done
    /\ suggResult' = [done |-> TRUE,
                      out  |-> SelectSuggestion(suggIn.listVisible, suggestions,
                                                suggIn.clickOk, suggIn.enterOk)]
    /\ UNCHANGED <<runVars, choiceVars, suggestions, suggIn, dataVars, fileVars>>

NextSuggest == ScanSuggestions

SpecSuggest == InitSuggest /\ [][NextSuggest]_vars

----------------------------------------------------------------------------
(* The submitted values: what is applied to the form and what the summary says *)

\* len(DESCRIPTIONS)
NumDescriptions == 10

\* DESCRIPTIONS, each entry by its position
DESCRIPTIONS == 1..NumDescriptions

\* get_config(): the defaults, or ADDRESS and ZIP set in the environment
Configs == {DefaultConfig, [DefaultConfig EXCEPT !.address = "10 Main St", !.zip = "10001"]}

\* get_current_datetime_nyc(), by the hour and the minute
Times == [hour : {0, 9, 12, 15}, minute : {5}]

\* strftime('%-m/%-d/%Y %-I:%M %p'), by the hour and the minute
strftime(t) ==
    [hour   |-> IF t.hour % 12 = 0 THEN 12 ELSE t.hour % 12,
     minute |-> t.minute,
     ampm   |-> IF t.hour < 12 THEN "AM" ELSE "PM"]

\* what a choice filler applied: the text of the option it selected
Applied(options, r) ==
    [raised |-> r.raised, text |-> IF r.raised THEN <<>> ELSE options[r.index]]

AdditionalApplied ==
    {Applied(o, ChooseAdditionalDetails(o)) : o \in OptionLists("additional")}

LocationTypeApplied ==
    {Applied(o, ChooseLocationType(o)) : o \in {l \in OptionLists("loctype") : OptionsLoaded(l)}}

\* mutant: the description is a literal of the summary, like its neighbours
SubmissionDetails_FixedDescription(cfg, desc, t) ==
    [address            |-> cfg,
     location_type      |-> <<"3+ Family Apt. Building">>,
     problem_detail     |-> <<"Condition Attracting Rodents">>,
     additional_details |-> <<"Garbage">>,
     datetime           |-> strftime(t),
     recurring          |-> "Yes",
     description        |-> 1]

\* save_submission_details: the f-string of lines 87-94
SubmissionDetails(cfg, desc, t) ==
    [address            |-> cfg,
     location_type      |-> <<"3+ Family Apt. Building">>,
     problem_detail     |-> <<"Condition Attracting Rodents">>,
     additional_details |-> <<"Garbage">>,
     datetime           |-> strftime(t),
     recurring          |-> "Yes",
     description        |-> desc]

InitSummary ==
    /\ IdleRun("select_random_description")
    /\ NoFileStudy
    /\ NoChoiceStudy
    /\ NoSuggestionStudy
    /\ config \in Configs
    /\ nyc_datetime \in Times
    /\ description = {}
    /\ chosen = 0
    /\ form = NoForm
    /\ summary = {}

\* main(): description = select_random_description()
select_random_description ==
    /\ pc = "select_random_description"
    /\ \E d \in DESCRIPTIONS : description' = {d}
    /\ chosen' = chosen + 1
    /\ pc' = "fill_step1_what"
    /\ UNCHANGED <<runRest, choiceVars, suggVars, fileVars, config, nyc_datetime, form, summary>>

\* fill_step1_what(page, description, nyc_datetime): it raises, or it applies
\* the problem detail, the additional details when the dropdown is visible,
\* the description, and the date and time when the field is there
fill_step1_what ==
    /\ pc = "fill_step1_what"
    /\ \/ /\ pc' = "raised"
          /\ UNCHANGED form
       \/ \E additional \in {{}} \cup {{a.text} : a \in {x \in AdditionalApplied : ~x.raised}},
             hasDatetime \in BOOLEAN :
             /\ form' = [form EXCEPT
                            !.problem = {<<"Condition Attracting Rodents">>},
                            !.additional = additional,
                            !.description = description,
                            !.datetime = IF hasDatetime THEN {strftime(nyc_datetime)} ELSE {}]
             /\ pc' = "fill_step2_where"
    /\ UNCHANGED <<runRest, choiceVars, suggVars, fileVars, config, nyc_datetime, description, chosen,
                   summary>>

\* fill_step2_where(page, config): it raises, or it applies the location type
\* and types config['address'] into the address search
fill_step2_where ==
    /\ pc = "fill_step2_where"
    /\ \/ /\ pc' = "raised"
          /\ UNCHANGED form
       \/ \E a \in {x \in LocationTypeApplied : ~x.raised} :
             /\ form' = [form EXCEPT !.loctype = {a.text}, !.address = {config.address}]
             /\ pc' = "fill_step4_review_and_submit"
    /\ UNCHANGED <<runRest, choiceVars, suggVars, fileVars, config, nyc_datetime, description, chosen,
                   summary>>

\* fill_step3_who applies nothing; fill_step4_review_and_submit submits what
\* the form holds, or raises
fill_step4_review_and_submit ==
    /\ pc = "fill_step4_review_and_submit"
    /\ \E ok \in BOOLEAN : pc' = IF ok THEN "save_submission_details" ELSE "raised"
    /\ UNCHANGED <<runRest, choiceVars, suggVars, fileVars, dataVars>>

\* save_submission_details(config, description, nyc_datetime)
WriteSubmissionDetails ==
    /\ pc = "save_submission_details"
    /\ \/ /\ summary' = {SubmissionDetails(config, d, nyc_datetime) : d \in description}
          /\ pc' = "returned"
       \/ /\ pc' = "raised"
          /\ UNCHANGED summary
    /\ UNCHANGED <<runRest, choiceVars, suggVars, fileVars, config, nyc_datetime, description, chosen,
                   form>>

NextSummary ==
    \/ select_random_description
    \/ fill_step1_what
    \/ fill_step2_where
    \/ fill_step4_review_and_submit
    \/ WriteSubmissionDetails

SpecSummary == InitSummary /\ [][NextSummary]_vars

----------------------------------------------------------------------------
(* Two runs and one artifacts directory *)

\* the error_name of the captures made before main()'s handlers
InnerTags ==
    {"captcha_detected", "no_report_button", "step_transition_failed_expected_2",
     "step_transition_failed_expected_3", "step_transition_failed_expected_4",
     "address_button_still_disabled", "address_modal_failed",
     "submission_failed_no_confirmation"}

\* the error_name of the captures made by main()'s handlers
HandlerTags == {"timeout_error", "error"}

\* datetime.now().strftime("%Y%m%d_%H%M%S"): the time to the second
Timestamp(now) == now \div TicksPerSecond

\* f"{error_name}_{timestamp}.png" and f"{error_name}_{timestamp}.html"
ArtifactNames(error_name, now) ==
    {[stem |-> error_name, stamp |-> {Timestamp(now)}, ext |-> e] : e \in {"png", "html"}}

\* artifacts_dir / "submission_details.txt"
SummaryName == [stem |-> "submission_details", stamp |-> {}, ext |-> "txt"]

\* the writes of run r to the files named
Writes(names, r) == {[name |-> n, by |-> r] : n \in names}

InitFiles ==
    /\ IdleRun("files")
    /\ NoChoiceStudy
    /\ NoSuggestionStudy
    /\ NoDataStudy
    /\ clock = 0
    /\ written = {}
    /\ rpos = [r \in Runs |-> [at |-> "running", captures |-> 0]]

\* time passes while a run is under way
Tick ==
    /\ clock < MaxClock
    /\ \E r \in Runs : rpos[r].at = "running"
    /\ clock' = clock + 1
    /\ UNCHANGED <<runVars, choiceVars, suggVars, dataVars, written, rpos>>

\* run r calls save_debug_artifacts outside main()'s handlers and goes on or
\* raises
RunCaptures(r) ==
    /\ rpos[r].at = "running"
    /\ rpos[r].captures < MaxCaptures
    /\ \E tag \in InnerTags : written' = written \cup Writes(ArtifactNames(tag, clock), r)
    /\ rpos' = [rpos EXCEPT ![r].captures = @ + 1]
    /\ UNCHANGED <<runVars, choiceVars, suggVars, dataVars, clock>>

\* run r ends in one of main()'s handlers: save_debug_artifacts, return 1
RunFails(r) ==
    /\ rpos[r].at = "running"
    /\ \E tag \in HandlerTags : written' = written \cup Writes(ArtifactNames(tag, clock), r)
    /\ rpos' = [rpos EXCEPT ![r].at = "returned"]
    /\ UNCHANGED <<runVars, choiceVars, suggVars, dataVars, clock>>

\* run r ends with save_submission_details, return 0
RunSucceeds(r) ==
    /\ rpos[r].at = "running"
    /\ written' = written \cup Writes({SummaryName}, r)
    /\ rpos' = [rpos EXCEPT ![r].at = "returned"]
    /\ UNCHANGED <<runVars, choiceVars, suggVars, dataVars, clock>>

NextFiles ==
    \/ Tick
    \/ \E r \in Runs : RunCaptures(r)
    \/ \E r \in Runs : RunFails(r)
    \/ \E r \in Runs : RunSucceeds(r)

SpecFiles == InitFiles /\ [][NextFiles]_vars

----------------------------------------------------------------------------
(* Claims *)

Aborted == pc \in {"except", "finally", "exit", "done"}

\* no challenge marker was seen by either check
NoChallenge == ~challenge

\* every file-system and capture operation of the run succeeds
WorkingFiles == env.dirOk /\ env.shotOk /\ env.htmlOk /\ env.summaryOk

\* C1: wait_and_click_next(page, expected_next_step=E) never returns normally
\* when get_current_step, read after the click, yields a known step other
\* than E: it captures diagnostics under the transition tag and raises.
C1_VerifiedMismatchRaises ==
    (adv.verified /\ adv.current \in Steps /\ adv.current # adv.expected)
        => /\ adv.result = "raised"
           /\ pc = "except" /\ exc \in ExcKinds
           /\ adv.saves = 1
           /\ diag # <<>> /\ diag[Len(diag)] = TransitionTag(adv.expected)

C1_Witness ==
    /\ adv.verified /\ adv.clicked
    /\ adv.expected = 3 /\ adv.current = 4
    /\ adv.result = "raised"

\* C2: when the advance button was visible and clicked and get_current_step
\* then yields None, wait_and_click_next returns normally, raising nothing
\* and capturing no diagnostics.
C2_UnknownStepAccepted ==
    (adv.verified /\ adv.clicked /\ adv.current = NoStep)
        => /\ adv.result = "returned"
           /\ adv.saves = 0
           /\ exc = "none"
           /\ pc = AfterAdvance(adv.expected)

C2_Witness ==
    /\ adv.verified /\ adv.clicked /\ adv.current = NoStep
    /\ adv.expected = 3
    /\ adv.result = "returned"

\* C3: once ensure_no_captcha has seen a visible challenge marker larger than
\* 50 x 50 it has raised: the run is aborted, no form field is touched
\* afterwards, and the run exits 1.
C3_ChallengeAborts ==
    challenge => /\ Aborted
                 /\ ~interacted
                 /\ pc = "done" => exitStatus = {1}

\* C4: in a non-dry run the absence of a confirmation is never a success:
\* with neither the thank-you marker nor a keyword found after the submit
\* click, fill_step4_review_and_submit raises and the run exits 1; and exit
\* status 0 means a confirmation signal was found after the submit click.
C4_NoConfirmationNoSuccess ==
    /\ confirm = "absent"
          => /\ Aborted
             /\ pc = "except" => exc \in ExcKinds
             /\ ret # {0}
             /\ pc = "done" => exitStatus = {1}
    /\ (pc = "done" /\ ~dry_run /\ exitStatus = {0})
          => submitClicked /\ confirm \in {"marker", "scan"}

C4_Witness ==
    /\ pc = "done" /\ ~dry_run /\ submitClicked
    /\ confirm = "absent"
    /\ exitStatus = {1}

\* C5: the run ends with exit status 0 only when navigation, both challenge
\* checks and the four step procedures completed without raising, and with
\* exit status 1 whenever an exception of any kind reached main()'s error
\* boundary.
C5_ExitStatus ==
    pc = "done"
        => /\ exitStatus \in {{0}, {1}}
           /\ exitStatus = {0} => (failure = "none" /\ origin = "none" /\ stepsDone = 4)
           /\ failure # "none" => exitStatus = {1}

C5_Witness ==
    /\ pc = "done"
    /\ failure = "error" /\ origin = "adv_verify"
    /\ exitStatus = {1}

\* C6: in a dry run the submit control is never clicked, and a dry run whose
\* steps 1-3 and their transitions completed reaches step 4 and exits with
\* status 0.  (Stated for runs that met no challenge marker.)
C6_DryRunSucceeds ==
    /\ dry_run => ~submitClicked
    /\ (pc = "done" /\ dry_run /\ NoChallenge /\ stepsDone >= 3)
          => (stepsDone = 4 /\ exitStatus = {0})

\* C7: a dry run writes no submission summary.  (Stated for runs that met no
\* challenge marker.)
C7_DryRunWritesNoSummary == (dry_run /\ NoChallenge) => ~summaryWritten

\* the tags of save_debug_artifacts calls made by step 2 code
TaggedForStep2(tag) ==
    tag \in {"address_button_still_disabled", "address_modal_failed",
             "step_transition_failed_expected_3"}

\* C8: when the advance control does not become visible at step 2, after the
\* address picker succeeded, the run leaves exactly one diagnostics pair, that
\* pair is tagged for step 2, and the run exits non-zero.  (Stated for runs
\* that met no challenge marker and in which every capture succeeds.)
C8_Step2AdvanceMissing ==
    (pc = "done" /\ origin = "adv_click" /\ failure = "assert" /\ stepsDone = 1
                 /\ NoChallenge /\ WorkingFiles)
        => /\ Len(diag) = 1
           /\ TaggedForStep2(diag[1])
           /\ save_debug_artifacts_files(env) = {"png", "html"}
           /\ exitStatus = {1}

\* C9: the address-picker sub-flow ends normally only by clicking the confirm
\* control while it is enabled, after an address or a pin was selected.
\* (Stated for runs that met no challenge marker and whose captures succeed.)
C9_PickerSelectsOrRaises ==
    (picker.result = "closed" /\ NoChallenge /\ WorkingFiles)
        => /\ picker.confirmed /\ picker.enabled
           /\ picker.selection # "none" \/ picker.pin

\* C10: when some option's text contains a preferred token, the filler does
\* not fail and selects an option containing the earliest such token in
\* preference order.
C10_SelectsFirstPreferred ==
    (chResult.done /\ FirstPref(PrefsOf(chField), chOptions) # 0)
        => /\ ~chResult.raised
           /\ chResult.index \in 1..Len(chOptions)
           /\ Contains(chOptions[chResult.index],
                       PrefsOf(chField)[FirstPref(PrefsOf(chField), chOptions)])


\* C11: when no option's text contains a preferred token, the filler does not
\* fail and selects the first non-empty option of the control, wherever that
\* option stands in the list.
C11_FallbackFirstNonEmpty ==
    (chResult.done /\ FirstPref(PrefsOf(chField), chOptions) = 0 /\ OptionsLoaded(chOptions))
        => /\ ~chResult.raised
           /\ chResult.index = Min({i \in 1..Len(chOptions) : chOptions[i] # <<>>})

\* C13: browser.close() is called exactly once in every run, and main() does
\* not return before it: whether the run completed, met a challenge, or a
\* step raised.
C13_SessionReleasedOnce ==
    /\ closed <= 1
    /\ pc \in {"exit", "done"} => closed = 1
    /\ pc \notin {"exit", "done"} => closed = 0

C13_Witness ==
    /\ pc = "done" /\ closed = 1
    /\ failure = "timeout" /\ origin = "picker_input"

\* C14: a run that exits 1 does so because an exception reached main()'s error
\* boundary, and the last save_debug_artifacts invocation of the run is the
\* one the handler made for it, before main() returned.
C14_FatalPathCaptures ==
    /\ (pc \in {"finally", "exit", "done"} /\ failure # "none")
          => diag # <<>> /\ diag[Len(diag)] \in {"timeout_error", "error"}
    /\ (pc = "done" /\ exitStatus = {1}) => failure # "none"

C14_Witness ==
    /\ pc = "done" /\ exitStatus = {1}
    /\ failure = "timeout" /\ diag = <<"timeout_error">>

\* C15: no failure of the diagnostics capture propagates: an OSError reaches
\* the error boundary only from the write of the summary, and once the
\* handler has captured, main() returns 1.
C15_CaptureFailureSwallowed ==
    /\ failure = "oserror" => origin = "save"
    /\ (pc \in {"finally", "exit", "done"} /\ failure # "none") => ret = {1}

\* C17: in a non-dry run that clicks submit, ensure_no_captcha ran before the
\* first form-field interaction and ran again after steps 1-3 had completed,
\* before the submit click.  (The second part is stated for runs that met no
\* challenge marker and whose file operations succeed.)
C17_CheckedBeforeSubmit ==
    /\ interacted => (checks # <<>> /\ checks[1] = 0)
    /\ (~dry_run /\ submitClicked /\ NoChallenge /\ WorkingFiles)
          => (checks # <<>> /\ checks[Len(checks)] = 3)

\* the statements inside the try block of the address picker
PickerStages == {"picker_input", "picker_suggest", "picker_visible", "picker_wait",
                 "picker_click"}

\* C18: an exception raised inside the address picker after the modal was
\* opened reaches main() only through the picker's handler, which captures,
\* attempts the dismissal and re-raises.  (Stated for runs whose captures
\* succeed.)
C18_PickerFailureDismisses ==
    (pc = "except" /\ origin \in PickerStages /\ WorkingFiles)
        => /\ picker.opened
           /\ picker.result = "raised"
           /\ diag # <<>> /\ diag[Len(diag)] = "address_modal_failed"

\* C20: whenever fill_step1_what calls the step 1 advance, the recurring
\* "Yes" radio has been checked.  (Stated for runs that met no challenge
\* marker.)
C20_RecurringAlwaysYes == (adv.expected = 2 /\ NoChallenge) => recurring


\* str.lower(), word by word, of the words suggestions and boroughs are made of
Lower(text) ==
    [i \in 1..Len(text) |->
        CASE text[i] = "Carroll St" -> "carroll st"
          [] text[i] = "Brooklyn"   -> "brooklyn"
          [] text[i] = "BROOKLYN"   -> "brooklyn"
          [] text[i] = "MANHATTAN"  -> "manhattan"
          [] text[i] = "QUEENS"     -> "queens"
          [] text[i] = "BRONX"      -> "bronx"
          [] text[i] = "STATEN"     -> "staten"
          [] text[i] = "ISLAND"     -> "island"
          [] OTHER                  -> text[i]]

\* the suggestions whose text contains a borough name, whatever the case
Qualifying(sugg) ==
    {i \in 1..Len(sugg) : \E b \in Boroughs : Contains(Lower(sugg[i]), Lower(b))}

C12_OneDescriptionPerRun ==
    /\ chosen <= 1
    /\ description \subseteq DESCRIPTIONS
    /\ Cardinality(description) = chosen
    /\ pc # "select_random_description" => chosen = 1
    /\ form.description # {} => form.description = description
    /\ \A s \in summary : {s.description} = description /\ form.description = description

C12_Witness ==
    /\ pc = "returned"
    /\ description = {7}
    /\ form.description = {7}
    /\ \E s \in summary : s.description = 7

\* every field of the form received a value, and no choice landed on an
\* empty option
AllApplied ==
    /\ \A f \in DOMAIN form : form[f] # {}
    /\ form.additional # {<<>>} /\ form.loctype # {<<>>}

\* C16: every value the written summary records is the value the run applied
\* to the form: address, problem detail, additional details, location type,
\* date and time, description.  (Stated for runs that applied a value to
\* every field.)
C16_SummaryRecordsSubmitted ==
    \A s \in summary :
        AllApplied =>
        /\ {s.address.address} = form.address
        /\ {s.problem_detail} = form.problem
        /\ {s.additional_details} = form.additional
        /\ {s.location_type} = form.loctype
        /\ {s.datetime} = form.datetime
        /\ {s.description} = form.description


\* C24: a failing run invokes save_debug_artifacts once, leaving one
\* screenshot and one markup file for its failure, whatever the failure:
\* missing report button, step-transition mismatch, address-picker failure,
\* missing confirmation, timeout, generic error.  (Stated for runs that met
\* no challenge marker and whose file operations succeed.)
C24_OnePairPerFailure ==
    (pc = "done" /\ failure # "none" /\ NoChallenge /\ WorkingFiles)
        => /\ Len(diag) = 1
           /\ save_debug_artifacts_files(env) = {"png", "html"}

\* C25: a run that exits with status 0 has never invoked save_debug_artifacts.
\* (Stated for runs that met no challenge marker and whose file operations
\* succeed.)
C25_NoCaptureOnSuccess ==
    (pc = "done" /\ exitStatus = {0} /\ NoChallenge /\ WorkingFiles) => diag = <<>>

\* the artifacts directory can be created and every capture succeeds
WorkingCaptures == env.dirOk /\ env.shotOk /\ env.htmlOk

\* C26: a non-dry run that clicked submit and found a confirmation signal
\* exits with status 0, never 1.  (Stated for runs that met no challenge
\* marker and whose captures succeed.)
C26_ConfirmedNeverFails ==
    (pc = "done" /\ ~dry_run /\ submitClicked /\ confirm \in {"marker", "scan"}
                 /\ NoChallenge /\ WorkingCaptures)
        => exitStatus = {0}


\* C21: when some strategy of the advance control has a visible match,
\* wait_and_click_next holds the element of the first such strategy, also
\* when an earlier strategy matches a hidden element, and does not fail the
\* visibility expectation.  (Stated for runs that met no challenge marker.)
C21_FirstVisibleStrategy ==
    (adv.strategy # 0 /\ adv.firstVisible # 0 /\ NoChallenge)
        => /\ adv.strategy = adv.firstVisible
           /\ ~(pc = "except" /\ origin = "adv_click" /\ exc = "assert")


\* C23: every run terminates with exit status 0 or 1, whatever the page
\* does: no statement of the run waits forever.
C23_RunTerminates == <>(pc = "done" /\ exitStatus \in {{0}, {1}})

C23_Witness ==
    /\ pc = "done" /\ exitStatus = {1}
    /\ failure = "timeout" /\ origin = "picker_click"
    /\ diag = <<"address_button_still_disabled", "address_modal_failed", "timeout_error">>


\* C22: of two runs sharing an artifacts directory, neither writes a file the
\* other has written: every file name is written by one run only.
C22_NoClobber ==
    \A p \in written, q \in written : p.name = q.name => p.by = q.by

====
